---- MODULE Spec2Model ----
(***************************************************************************)
(* Model of custom-react-quill-editor: the placeholder and highlight token *)
(* codecs, the offset-mapped text search and the ReactQuillWrapper facade. *)
(*                                                                         *)
(* Markup strings are sequences of lexemes.  A lexeme is either a single   *)
(* character that some regular expression of the source distinguishes      *)
(* ("{", "}", ">", the double quote, " ") or a word that the source only   *)
(* ever treats as a whole ("<span", " class=", "ql-highlight", a text      *)
(* word such as "A").  Every regular expression is modelled by the scan    *)
(* the JavaScript engine performs over these lexemes.                      *)
(***************************************************************************)
EXTENDS Integers, Sequences, FiniteSets, TLC

VARIABLES
    src,            \* codec: the string the caller passed
    buf,            \* codec: the current string
    prev,           \* codec: the string before the last call
    calls,          \* codec: the calls made so far, oldest first
    highlightText,  \* ReactQuillWrapper.highlightText (the stored request list)
    blots,          \* ReactQuillWrapper.editorBlotConfig
    doc,            \* the editor's document: one unit per document offset
    before,         \* the document before the last operation
    located,        \* applyHighlights: rangesByIndex after the sort
    extracted,      \* the last storage text that deserialize() returned
    lastOp,         \* the last operation of the wrapper that ran
    thrown,         \* what that operation threw to its caller (<<>>: nothing)
    searchText,     \* findTextRangesInDelta: the phrase searched for
    options,        \* findTextRangesInDelta: options.caseInsensitive
    ranges,         \* findTextRangesInDelta: the ranges returned
    selection,      \* the cursor of the editor (NoSelection: none)
    inserted,       \* the last insertPlaceholder call: its arguments and steps
    anchor,         \* a highlight span: its attributes, listeners, _tooltipEl
    overlays,       \* the tooltip nodes in the body made for the anchor
    scrollHooks,    \* the pending once-listeners for scroll on .ql-editor
    hovers,         \* the hover-enter events so far
    emitted,        \* quill-highlight-hover events sent by the last event
    mounted,        \* the editor component is mounted
    shownBefore,    \* a tooltip was shown when the last event arrived
    formatted,      \* the value of the last format call on the anchor
    geometry,       \* the rectangles getBoundingClientRect answers with
    overlayBox      \* the rectangle and data-placement of the tooltip made

codecVars == <<src, buf, prev, calls>>
editorVars == <<doc, before, located, extracted, lastOp>>
searchVars == <<searchText, options, ranges>>
wrapperVars == <<highlightText, blots>>
cursorVars == <<selection, inserted>>
tooltipVars ==
    <<anchor, overlays, scrollHooks, hovers, emitted, mounted, shownBefore,
      formatted>>
placementVars == <<geometry, overlayBox>>
vars == <<src, buf, prev, calls, highlightText, blots, doc, before, located,
          extracted, lastOp, thrown, searchText, options, ranges, selection,
          inserted, anchor, overlays, scrollHooks, hovers, emitted, mounted,
          shownBefore, formatted, geometry, overlayBox>>

----------------------------------------------------------------------------
(* Lexemes *)

Q == "\""
GT == ">"
SP == " "
SPAN_OPEN == "<span"
SPAN_CLOSE == "</span"
NBSP == "&nbsp;"

\* String.prototype.trim: the whitespace lexemes
WhiteSpace == {SP}

\* the least member of a set of positions, 0 for the empty set
First(S) == IF S = {} THEN 0 ELSE CHOOSE x \in S : \A y \in S : x <= y

\* the greatest member of a set of positions, 0 for the empty set
Last(S) == IF S = {} THEN 0 ELSE CHOOSE x \in S : \A y \in S : x >= y

\* String.prototype.indexOf for one lexeme: first j >= i with s[j] = a, else 0
IndexFrom(s, a, i) == First({j \in i..Len(s) : s[j] = a})

RECURSIVE TrimLeft(_)
TrimLeft(s) ==
    IF s # <<>> /\ Head(s) \in WhiteSpace THEN TrimLeft(Tail(s)) ELSE s

RECURSIVE TrimRight(_)
TrimRight(s) ==
    IF s # <<>> /\ s[Len(s)] \in WhiteSpace
    THEN TrimRight(SubSeq(s, 1, Len(s) - 1))
    ELSE s

\* String.prototype.trim
Trim(s) == TrimRight(TrimLeft(s))

\* the part of s from lexeme i on
From(s, i) == SubSeq(s, i, Len(s))

\* s starts with p at lexeme i
StartsAt(s, p, i) ==
    /\ i + Len(p) - 1 <= Len(s)
    /\ \A k \in 1..Len(p) : s[i + k - 1] = p[k]

RECURSIVE Flatten(_)
\* the strings of ss joined
Flatten(ss) == IF ss = <<>> THEN <<>> ELSE Head(ss) \o Flatten(Tail(ss))

----------------------------------------------------------------------------
(* Placeholder token codec *)

\* PLACEHOLDER_TOKEN_REGEX = /\{\{([^}]+)\}\}/g : the lexeme closing a match
\* that starts at i (0: no match at i).  [^}]+ takes every lexeme up to the
\* next "}", which must be followed by a second "}".
PlaceholderTokenEnd(s, i) ==
    IF i + 1 <= Len(s) /\ s[i] = "{" /\ s[i + 1] = "{"
    THEN LET c == IndexFrom(s, "}", i + 2)
         IN  IF c > i + 2 /\ c + 1 <= Len(s) /\ s[c + 1] = "}"
             THEN c + 1 ELSE 0
    ELSE 0

\* (mutant) the markup with a label of its own next to the key
PlaceholderSpanLabelled(k) ==
    <<SPAN_OPEN, " class=", Q, "ql-placeholder", Q, " data-key=", Q>> \o k
    \o <<Q, " data-label=", Q, "L", Q, " contenteditable=", Q, "false", Q, GT,
         "L", SPAN_CLOSE, GT>>

\* the canonical embed markup written for a trimmed key k
PlaceholderSpan(k) ==
    <<SPAN_OPEN, " class=", Q, "ql-placeholder", Q, " data-key=", Q>> \o k
    \o <<Q, " data-label=", Q>> \o k
    \o <<Q, " contenteditable=", Q, "false", Q, GT>> \o k
    \o <<SPAN_CLOSE, GT>>

RECURSIVE TokensToHtmlFrom(_, _)
\* html.replace(PLACEHOLDER_TOKEN_REGEX, ...) from lexeme i on: the text up to
\* the next match is kept, the match is replaced, the scan goes on behind it
TokensToHtmlFrom(s, i) ==
    LET m == First({k \in i..Len(s) : PlaceholderTokenEnd(s, k) # 0})
        e == PlaceholderTokenEnd(s, m)
    IN  IF m = 0 THEN From(s, i)
        ELSE SubSeq(s, i, m - 1)
             \o PlaceholderSpan(Trim(SubSeq(s, m + 2, e - 2)))
             \o TokensToHtmlFrom(s, e + 1)

htmlWithPlaceholderTokensToHtml(html) == TokensToHtmlFrom(html, 1)

\* (mutant) any attribute with a quoted value is taken for NAME
LastAttrOfAnyName(s, name, lo, hi) ==
    Last({j \in lo..hi : /\ s[j] \in {name, " class=", " data-label="}
                         /\ j + 1 <= Len(s) /\ s[j + 1] = Q
                         /\ IndexFrom(s, Q, j + 2) # 0})

\* (?=[^>]*\bNAME="([^"]*)") seen from the lexeme after "<span": the greedy
\* [^>]* backtracks from the first ">" (or the end), so the attribute found is
\* the last NAME=" in lo..hi that has a closing quote.  0: none.
LastAttrIn(s, name, lo, hi) ==
    Last({j \in lo..hi : /\ s[j] = name
                         /\ j + 1 <= Len(s) /\ s[j + 1] = Q
                         /\ IndexFrom(s, Q, j + 2) # 0})

\* (mutant) the value read as [^">]*: it stops at a ">" inside the value
AttrValueToGT(s, j) ==
    LET q == IndexFrom(s, Q, j + 2)
        g == IndexFrom(s, GT, j + 2)
    IN  SubSeq(s, j + 2, (IF g # 0 /\ g < q THEN g ELSE q) - 1)

\* the value ([^"]*) of the attribute whose name lexeme is at j
AttrValue(s, j) == SubSeq(s, j + 2, IndexFrom(s, Q, j + 2) - 1)

\* the last lexeme [^>]* can take after position i: one before the first ">"
TagPrefixEnd(s, i) ==
    LET g == IndexFrom(s, GT, i + 1)
    IN  IF g = 0 THEN Len(s) ELSE g - 1

\* (?=[^>]*\bclass="[^"]*CLS[^"]*") seen from the lexeme after "<span"
HasClass(s, i, cls) ==
    \E j \in (i + 1)..TagPrefixEnd(s, i) :
        /\ s[j] = " class="
        /\ j + 1 <= Len(s) /\ s[j + 1] = Q
        /\ LET q == IndexFrom(s, Q, j + 2)
           IN  q # 0 /\ \E k \in (j + 2)..(q - 1) : s[k] = cls

\* <span ... [^>]*>([\s\S]*?)<\/span> : the position of the ">" that ends the
\* opening tag of the span starting at i, and of the "</span" that the lazy
\* body stops at (0: the pattern does not match at i)
OpenTagEnd(s, i) == IndexFrom(s, GT, i + 1)

CloseFrom(s, i) ==
    First({j \in i..(Len(s) - 1) : s[j] = SPAN_CLOSE /\ s[j + 1] = GT})

SpanClose(s, i) ==
    LET g == OpenTagEnd(s, i)
    IN  IF g = 0 THEN 0 ELSE CloseFrom(s, g + 1)

\* PLACEHOLDER_BLOT_REGEX matches at i
PlaceholderBlotAt(s, i) ==
    /\ s[i] = SPAN_OPEN
    /\ HasClass(s, i, "ql-placeholder")
    /\ LastAttrIn(s, " data-key=", i + 1, TagPrefixEnd(s, i)) # 0
    /\ SpanClose(s, i) # 0

RECURSIVE BlotsToTokensFrom(_, _)
\* html.replace(PLACEHOLDER_BLOT_REGEX, "{{$1}}") from lexeme i on
BlotsToTokensFrom(s, i) ==
    LET m == First({k \in i..Len(s) : PlaceholderBlotAt(s, k)})
        j == LastAttrIn(s, " data-key=", m + 1, TagPrefixEnd(s, m))
    IN  IF m = 0 THEN From(s, i)
        ELSE SubSeq(s, i, m - 1)
             \o <<"{", "{">> \o AttrValue(s, j) \o <<"}", "}">>
             \o BlotsToTokensFrom(s, SpanClose(s, m) + 2)

semanticHtmlToPlaceholderTokens(html) == BlotsToTokensFrom(html, 1)

----------------------------------------------------------------------------
(* Highlight token codec *)

\* a character-wise replacement chain, applied lexeme by lexeme; f is the
\* table of the lexemes it rewrites
MapLexemes(f, s) ==
    [i \in 1..Len(s) |-> IF s[i] \in DOMAIN f THEN f[s[i]] ELSE s[i]]

escapeAttr(value) ==
    MapLexemes([c \in {"&", Q, "<", GT} |->
                  CASE c = "&" -> "&amp;" [] c = Q -> "&quot;"
                    [] c = "<" -> "&lt;" [] OTHER -> "&gt;"], value)

unescapeAttr(value) ==
    MapLexemes([c \in {"&quot;", "&lt;", "&gt;", "&amp;"} |->
                  CASE c = "&quot;" -> Q [] c = "&lt;" -> "<"
                    [] c = "&gt;" -> GT [] OTHER -> "&"], value)

escapeHtml(s) ==
    MapLexemes([c \in {"&", "<", GT, Q, "'"} |->
                  CASE c = "&" -> "&amp;" [] c = "<" -> "&lt;"
                    [] c = GT -> "&gt;" [] c = Q -> "&quot;"
                    [] OTHER -> "&#39;"], s)

RECURSIVE CharLen(_)
\* String.prototype.length: the characters of the lexemes of s
CharLen(s) == IF s = <<>> THEN 0 ELSE Len(Head(s)) + CharLen(Tail(s))

\* the lexemes in which /\bdata-highlight\b/ matches
DataHighlightLexemes ==
    {" data-highlight", " data-highlight=", " data-highlight-id=",
     " data-highlight-color="}

\* (?=[^>]*\bdata-highlight\b) seen from the lexeme after "<span"
HasDataHighlight(s, i) ==
    \E j \in (i + 1)..TagPrefixEnd(s, i) : s[j] \in DataHighlightLexemes

\* style.match(/\bNAME\s*:\s*([^;]+)/i)[1].trim() for the property names in
\* `names`, "" (here <<>>) without a match: the leftmost name that is followed
\* by a character other than ";" wins, and the capture runs to the next ";"
StyleValue(style, names) ==
    LET j == First({k \in 1..(Len(style) - 1) :
                      style[k] \in names /\ style[k + 1] # ";"})
        e == IndexFrom(style, ";", j + 1)
    IN  IF j = 0 THEN <<>>
        ELSE Trim(SubSeq(style, j + 1, IF e = 0 THEN Len(style) ELSE e - 1))

parseColorFromStyle(style) ==
    [textColor |-> StyleValue(style, {"color:", "background-color:"}),
     highlightColor |->
        StyleValue(style, {"background-color:", "background:"})]

styleHasHighlightColors(style) ==
    LET c == parseColorFromStyle(style)
    IN  c.textColor # <<>> /\ c.highlightColor # <<>>

\* [textColor && `color: ...`, highlightColor && `background-color: ...`]
\*   .filter(Boolean).join("; ")
ColorStyle(textColor, highlightColor) ==
    LET a == IF textColor = <<>> THEN <<>>
             ELSE <<"color:", SP>> \o textColor
        b == IF highlightColor = <<>> THEN <<>>
             ELSE <<"background-color:", SP>> \o highlightColor
    IN  IF a # <<>> /\ b # <<>> THEN a \o <<";", SP>> \o b ELSE a \o b

\* <span class="ql-highlight" style="STYLE"ATTRS>
HighlightOpen(style, attrs) ==
    <<SPAN_OPEN, " class=", Q, "ql-highlight", Q, " style=", Q>>
    \o escapeAttr(style) \o <<Q>> \o attrs \o <<GT>>

\* HIGHLIGHT_TOKEN_REGEX matches at i
HighlightTokenAt(s, i) ==
    /\ s[i] = SPAN_OPEN
    /\ HasDataHighlight(s, i)
    /\ LastAttrIn(s, " data-text-color=", i + 1, TagPrefixEnd(s, i)) # 0
    /\ LastAttrIn(s, " data-highlight-color=", i + 1, TagPrefixEnd(s, i)) # 0
    /\ SpanClose(s, i) # 0

RECURSIVE HighlightTokensToHtmlFrom(_, _)
\* html.replace(HIGHLIGHT_TOKEN_REGEX, ...) from lexeme i on
HighlightTokensToHtmlFrom(s, i) ==
    LET m == First({k \in i..Len(s) : HighlightTokenAt(s, k)})
        hi == TagPrefixEnd(s, m)
        tc == unescapeAttr(AttrValue(s,
                LastAttrIn(s, " data-text-color=", m + 1, hi)))
        hc == unescapeAttr(AttrValue(s,
                LastAttrIn(s, " data-highlight-color=", m + 1, hi)))
        e == SpanClose(s, m)
    IN  IF m = 0 THEN From(s, i)
        ELSE SubSeq(s, i, m - 1)
             \o HighlightOpen(ColorStyle(tc, hc), <<>>)
             \o SubSeq(s, OpenTagEnd(s, m) + 1, e - 1)
             \o <<SPAN_CLOSE, GT>>
             \o HighlightTokensToHtmlFrom(s, e + 2)

htmlWithHighlightTokensToHtml(html) == HighlightTokensToHtmlFrom(html, 1)

\* the span body ([\s\S]*?) of the match starting at i
SpanInner(s, i) == SubSeq(s, OpenTagEnd(s, i) + 1, SpanClose(s, i) - 1)

\* HIGHLIGHT_BLOT_REGEX matches at i
HighlightBlotAt(s, i) ==
    /\ s[i] = SPAN_OPEN
    /\ HasClass(s, i, "ql-highlight")
    /\ LastAttrIn(s, " style=", i + 1, TagPrefixEnd(s, i)) # 0
    /\ SpanClose(s, i) # 0

RECURSIVE UnwrapBlotsFrom(_, _)
\* out.replace(HIGHLIGHT_BLOT_REGEX, inner) from lexeme i on
UnwrapBlotsFrom(s, i) ==
    LET m == First({k \in i..Len(s) : HighlightBlotAt(s, k)})
    IN  IF m = 0 THEN From(s, i)
        ELSE SubSeq(s, i, m - 1) \o SpanInner(s, m)
             \o UnwrapBlotsFrom(s, SpanClose(s, m) + 2)

\* /<span(?=[^>]*\bdata-highlight\b)[^>]*>([\s\S]*?)<\/span>/g matches at i
DataHighlightSpanAt(s, i) ==
    /\ s[i] = SPAN_OPEN
    /\ HasDataHighlight(s, i)
    /\ SpanClose(s, i) # 0

RECURSIVE UnwrapDataHighlightFrom(_, _)
UnwrapDataHighlightFrom(s, i) ==
    LET m == First({k \in i..Len(s) : DataHighlightSpanAt(s, k)})
    IN  IF m = 0 THEN From(s, i)
        ELSE SubSeq(s, i, m - 1) \o SpanInner(s, m)
             \o UnwrapDataHighlightFrom(s, SpanClose(s, m) + 2)

\* HIGHLIGHT_STYLE_ONLY_REGEX matches at i
StyleOnlySpanAt(s, i) ==
    /\ s[i] = SPAN_OPEN
    /\ LastAttrIn(s, " style=", i + 1, TagPrefixEnd(s, i)) # 0
    /\ ~HasDataHighlight(s, i)
    /\ SpanClose(s, i) # 0

RECURSIVE UnwrapStyleOnlyFrom(_, _)
\* the callback keeps the whole match when the style has no highlight
\* colours; the scan goes on after the match either way
UnwrapStyleOnlyFrom(s, i) ==
    LET m == First({k \in i..Len(s) : StyleOnlySpanAt(s, k)})
        e == SpanClose(s, m)
        st == AttrValue(s, LastAttrIn(s, " style=", m + 1, TagPrefixEnd(s, m)))
    IN  IF m = 0 THEN From(s, i)
        ELSE SubSeq(s, i, m - 1)
             \o (IF styleHasHighlightColors(st)
                 THEN SpanInner(s, m)
                 ELSE SubSeq(s, m, e + 1))
             \o UnwrapStyleOnlyFrom(s, e + 2)

\* (mutant) an iteration that rewrites the class and keeps the tags
StripPassKeepingTags(s) ==
    [i \in 1..Len(s) |-> IF s[i] = "ql-highlight" THEN "ql-plain" ELSE s[i]]

\* one iteration of the do-while body of semanticHtmlToHighlightTokens
StripPass(s) ==
    UnwrapStyleOnlyFrom(
        UnwrapDataHighlightFrom(UnwrapBlotsFrom(s, 1), 1), 1)

\* (mutant) a single pass instead of the loop
StripOnce(html) == StripPass(html)

RECURSIVE semanticHtmlToHighlightTokens(_)
semanticHtmlToHighlightTokens(html) ==
    LET out == StripPass(html)
    IN  IF out # html THEN semanticHtmlToHighlightTokens(out) ELSE out

\* (mutant) only the empty text is skipped
IsEmptyText(s) == s = <<>>

\* s.trim() of a request text is empty (the request is skipped)
IsBlank(s) == Trim(s) = <<>>

RECURSIVE InsertByLength(_, _)
\* one step of the stable sort((a, b) => b.text.length - a.text.length):
\* x goes behind every request whose text is at least as long
InsertByLength(x, sorted) ==
    IF sorted = <<>> THEN <<x>>
    ELSE IF CharLen(Head(sorted).text) >= CharLen(x.text)
         THEN <<Head(sorted)>> \o InsertByLength(x, Tail(sorted))
         ELSE <<x>> \o sorted

RECURSIVE SortByLength(_)
\* the requests, longest text first, equal lengths in list order
SortByLength(items) ==
    IF items = <<>> THEN <<>>
    ELSE InsertByLength(items[Len(items)],
                        SortByLength(SubSeq(items, 1, Len(items) - 1)))

RECURSIVE ReplaceLiteral(_, _, _, _)
\* out.replace(new RegExp(escapeRegex(p), "g"), r)
ReplaceLiteral(s, p, r, i) ==
    LET m == First({k \in i..Len(s) : StartsAt(s, p, k)})
    IN  IF m = 0 THEN From(s, i)
        ELSE SubSeq(s, i, m - 1) \o r \o ReplaceLiteral(s, p, r, m + Len(p))

\* the span htmlWithHighlightText writes for one request
HighlightSpanFor(item) ==
    LET tip == IF item.hoverTextTooltip = <<>> THEN <<>>
               ELSE <<" data-hover-tooltip=", Q>>
                    \o escapeAttr(item.hoverTextTooltip) \o <<Q>>
                    \o (IF item.hoverTooltipPlacement = <<>> THEN <<>>
                        ELSE <<" data-tooltip-placement=", Q>>
                             \o escapeAttr(item.hoverTooltipPlacement)
                             \o <<Q>>)
    IN  HighlightOpen(ColorStyle(item.textColor, item.highlightColor), tip)
        \o escapeHtml(item.text) \o <<SPAN_CLOSE, GT>>

RECURSIVE WrapEach(_, _)
WrapEach(s, sorted) ==
    IF sorted = <<>> THEN s
    ELSE WrapEach(ReplaceLiteral(s, Head(sorted).text,
                                 HighlightSpanFor(Head(sorted)), 1),
                  Tail(sorted))

htmlWithHighlightText(html, items) ==
    WrapEach(html, SortByLength(SelectSeq(items, LAMBDA it : ~IsBlank(it.text))))

\* QuillHighlightBlot.editorHtmlFromStorage
editorHtmlFromStorage(html, items) ==
    htmlWithHighlightText(htmlWithHighlightTokensToHtml(html), items)

----------------------------------------------------------------------------
(* ReactQuillWrapper: the codec pipeline *)

serialize(html) ==
    LET a == IF blots.enablePlaceholderBlot
             THEN htmlWithPlaceholderTokensToHtml(html) ELSE html
    IN  IF blots.enableHighlightBlot
        THEN editorHtmlFromStorage(a, highlightText) ELSE a

deserialize(html) ==
    LET a == IF blots.enablePlaceholderBlot
             THEN semanticHtmlToPlaceholderTokens(html) ELSE html
        b == IF blots.enableHighlightBlot
             THEN semanticHtmlToHighlightTokens(a) ELSE a
    IN  ReplaceLiteral(b, <<NBSP>>, <<SP>>, 1)

----------------------------------------------------------------------------
(* The document and the offset-mapped text search *)

\* a unit of the document: a character or an embed, with the state of the
\* highlight span around it (on = FALSE: none)
NoHighlight ==
    [on |-> FALSE, highlightId |-> <<>>, hoverTextTooltip |-> <<>>,
     hoverTooltipPlacement |-> <<>>, styles |-> <<>>]

Char(c) == [kind |-> "text", ch |-> c, label |-> c, hl |-> NoHighlight]
Embed(key, label) ==
    [kind |-> "embed", ch |-> key, label |-> label, hl |-> NoHighlight]

\* QuillHighlightBlot.formats: the value of the highlight attribute that the
\* Delta carries for a unit (the inline styles are not part of it)
formats(node) ==
    [on |-> node.on, highlightId |-> node.highlightId,
     hoverTextTooltip |-> node.hoverTextTooltip,
     hoverTooltipPlacement |-> node.hoverTooltipPlacement]

\* units i and i + 1 are characters of one text run of the Delta
SameRun(d, i) ==
    /\ d[i].kind = "text" /\ d[i + 1].kind = "text"
    /\ formats(d[i].hl) = formats(d[i + 1].hl)

\* the first unit of the op that unit i belongs to
OpStart(d, i) == Last({j \in 1..i : j = 1 \/ ~SameRun(d, j - 1)})

\* getContents(): the ops of the document.  A text run is one op, an embed is
\* an op of its own.
getContents(d) ==
    LET starts == {j \in 1..Len(d) : OpStart(d, j) = j}
        ends(j) == First({k \in j..Len(d) : k = Len(d) \/ ~SameRun(d, k)})
        op(j) == IF d[j].kind = "text"
                 THEN [kind |-> "text",
                       insert |-> [k \in 1..(ends(j) - j + 1) |->
                                     d[j + k - 1].ch],
                       attributes |-> formats(d[j].hl)]
                 ELSE [kind |-> "embed",
                       insert |-> <<d[j].ch, d[j].label>>,
                       attributes |-> formats(d[j].hl)]
        nth(n) == CHOOSE j \in starts :
                      Cardinality({k \in starts : k < j}) = n - 1
    IN  [n \in 1..Cardinality(starts) |-> op(nth(n))]

\* String.prototype.toLowerCase on the letters of the model
LowerOf(c) ==
    CASE c = "A" -> "a" [] c = "B" -> "b" [] c = "H" -> "h"
      [] c = "E" -> "e" [] c = "L" -> "l" [] c = "O" -> "o" [] OTHER -> c
toLowerCase(s) == [i \in 1..Len(s) |-> LowerOf(s[i])]

\* (mutant) an embed that takes no document offset
EmbedSkipped(deltaIndex) == deltaIndex

\* the else branch of the loop over ops: an embed takes one document offset
EmbedStep(deltaIndex) == deltaIndex + 1

RECURSIVE Project(_, _)
\* the loop over ops: plainText and deltaIndexForChar, deltaIndex being the
\* document offset of the first op
Project(ops, deltaIndex) ==
    IF ops = <<>> THEN [plainText |-> <<>>, deltaIndexForChar |-> <<>>]
    ELSE IF Head(ops).kind = "text"
    THEN LET n == Len(Head(ops).insert)
             rest == Project(Tail(ops), deltaIndex + n)
         IN  [plainText |-> Head(ops).insert \o rest.plainText,
              deltaIndexForChar |->
                  [i \in 1..n |-> deltaIndex + i - 1]
                  \o rest.deltaIndexForChar]
    ELSE Project(Tail(ops), EmbedStep(deltaIndex))

\* _plainText.indexOf(_searchText, start), positions counted from 0
indexOf(text, pat, start) ==
    LET S == {p \in start..(Len(text) - Len(pat)) : StartsAt(text, pat, p + 1)}
    IN  IF S = {} THEN -1 ELSE First(S)

\* (mutant) the length taken to be the length of the phrase
RangeOfPhraseLength(deltaIndexForChar, pos, searchLen) ==
    [index |-> deltaIndexForChar[pos + 1], length |-> searchLen]

\* the range pushed for a hit at pos
RangeAt(deltaIndexForChar, pos, searchLen) ==
    LET index == deltaIndexForChar[pos + 1]
        endPos == pos + searchLen - 1
    IN  [index |-> index, length |-> deltaIndexForChar[endPos + 1] - index + 1]

\* (mutant) the scan goes on behind the hit
NextStartBehind(pos, searchLen) == pos + searchLen

\* start = pos + 1
NextStart(pos, searchLen) == pos + 1

RECURSIVE Scan(_, _, _, _)
\* the while (true) loop
Scan(text, pat, deltaIndexForChar, start) ==
    LET pos == indexOf(text, pat, start)
    IN  IF pos = -1 THEN <<>>
        ELSE <<RangeAt(deltaIndexForChar, pos, Len(pat))>>
             \o Scan(text, pat, deltaIndexForChar, NextStart(pos, Len(pat)))

\* (mutant) case sensitive unless the option is true
CaseSensitiveDefault(opt) == opt = "true"

\* const { caseInsensitive = true } = options
CaseInsensitive(opt) == IF opt = "undefined" THEN TRUE ELSE opt = "true"

findTextRangesInDelta(delta, text, opt) ==
    IF text = <<>> THEN <<>>
    ELSE LET pr == Project(delta, 0)
             ci == CaseInsensitive(opt)
         IN  Scan(IF ci THEN toLowerCase(pr.plainText) ELSE pr.plainText,
                  IF ci THEN toLowerCase(text) ELSE text,
                  pr.deltaIndexForChar, 0)

----------------------------------------------------------------------------
(* ReactQuillWrapper: highlights on the document *)

\* QuillHighlightBlot.create: the span made for a highlight value.  The
\* placement is only written next to a tooltip text.
create(value) ==
    [on |-> TRUE, highlightId |-> value.highlightId,
     hoverTextTooltip |-> value.hoverTextTooltip,
     hoverTooltipPlacement |->
        IF value.hoverTextTooltip # <<>>
        THEN value.hoverTooltipPlacement ELSE <<>>,
     styles |-> value.styles]

\* (mutant) a format that reaches one unit past the range
formatTextPastEnd(d, index, length, node) ==
    [i \in 1..Len(d) |->
        IF index < i /\ i <= index + length + 1
        THEN [d[i] EXCEPT !.hl = node] ELSE d[i]]

\* (mutant) a format that deletes the first unit of its range
formatTextDeleting(d, index, length, node) ==
    SubSeq(d, 1, index) \o SubSeq(d, index + 2, Len(d))

\* this.formatText(index, length, "highlight", value): the units at the
\* offsets index .. index + length - 1 get the span, nothing moves
formatText(d, index, length, node) ==
    [i \in 1..Len(d) |->
        IF index < i /\ i <= index + length
        THEN [d[i] EXCEPT !.hl = node] ELSE d[i]]

\* the ranges pushed for one request
RangesOf(delta, item) ==
    LET matches == IF IsBlank(item.text) THEN <<>>
                   ELSE findTextRangesInDelta(delta, item.text,
                                              item.caseInsensitive)
    IN  [k \in 1..Len(matches) |->
            [index |-> matches[k].index, length |-> matches[k].length,
             value |-> [hoverTextTooltip |-> item.hoverTextTooltip,
                        hoverTooltipPlacement |-> item.hoverTooltipPlacement,
                        highlightId |-> item.highlightId,
                        styles |-> item.styles]]]

RECURSIVE Locate(_, _)
\* the loop over the requests: rangesByIndex before the sort
Locate(delta, items) ==
    IF items = <<>> THEN <<>>
    ELSE RangesOf(delta, Head(items)) \o Locate(delta, Tail(items))

RECURSIVE InsertBeforeEqual(_, _)
\* (mutant) a sort that puts x before the ranges of its own index
InsertBeforeEqual(x, sorted) ==
    IF sorted = <<>> THEN <<x>>
    ELSE IF Head(sorted).index > x.index
         THEN <<Head(sorted)>> \o InsertBeforeEqual(x, Tail(sorted))
         ELSE <<x>> \o sorted

RECURSIVE InsertByIndex(_, _)
\* one step of the stable sort((a, b) => b.index - a.index)
InsertByIndex(x, sorted) ==
    IF sorted = <<>> THEN <<x>>
    ELSE IF Head(sorted).index >= x.index
         THEN <<Head(sorted)>> \o InsertByIndex(x, Tail(sorted))
         ELSE <<x>> \o sorted

RECURSIVE SortByIndex(_)
\* the ranges, greatest index first, equal indexes in the order pushed
SortByIndex(rs) ==
    IF rs = <<>> THEN <<>>
    ELSE InsertByIndex(rs[Len(rs)], SortByIndex(SubSeq(rs, 1, Len(rs) - 1)))

RECURSIVE FormatAll(_, _)
\* the loop over rangesByIndex
FormatAll(d, rs) ==
    IF rs = <<>> THEN d
    ELSE FormatAll(formatText(d, Head(rs).index, Head(rs).length,
                              create(Head(rs).value)),
                   Tail(rs))

RECURSIVE HighlightRangesFrom(_, _)
\* the loop of getHighlightRanges over the ops, index being the offset of
\* the first op
HighlightRangesFrom(ops, index) ==
    IF ops = <<>> THEN <<>>
    ELSE LET op == Head(ops)
             length == IF op.kind = "text" THEN Len(op.insert) ELSE 1
         IN  (IF op.attributes.on
              THEN <<[index |-> index, length |-> length]>> ELSE <<>>)
             \o HighlightRangesFrom(Tail(ops), index + length)

\* (mutant) only the text ops that carry the highlight are collected
getHighlightRangesOfText(d) ==
    SelectSeq(HighlightRangesFrom(getContents(d), 0),
              LAMBDA r : d[r.index + 1].kind = "text")

getHighlightRanges(d) == HighlightRangesFrom(getContents(d), 0)

RECURSIVE ClearAll(_, _)
\* the loop of removeAllHighlights
ClearAll(d, rs) ==
    IF rs = <<>> THEN d
    ELSE ClearAll(formatText(d, Head(rs).index, Head(rs).length, NoHighlight),
                  Tail(rs))

RECURSIVE cssText(_)
\* node.style after applyStyles: "name: value;" for every property
cssText(styles) ==
    IF styles = <<>> THEN <<>>
    ELSE <<Head(styles)[1], SP, Head(styles)[2], ";">>
         \o (IF Tail(styles) = <<>> THEN <<>> ELSE <<SP>> \o cssText(Tail(styles)))

Attr(name, value) ==
    IF value = <<>> THEN <<>> ELSE <<name, Q>> \o escapeAttr(value) \o <<Q>>

\* the opening tag of the span that create() made
HighlightNodeOpen(node) ==
    <<SPAN_OPEN, " class=", Q, "ql-highlight", Q>>
    \o Attr(" style=", cssText(node.styles))
    \o Attr(" data-highlight-id=", node.highlightId)
    \o Attr(" data-hover-tooltip=", node.hoverTextTooltip)
    \o Attr(" data-tooltip-placement=", node.hoverTooltipPlacement)
    \o <<GT>>

\* the node QuillPlaceholderBlot.create makes for an embed
PlaceholderNode(key, label) ==
    <<SPAN_OPEN, " class=", Q, "ql-placeholder", Q, " data-key=", Q>>
    \o escapeAttr(<<key>>) \o <<Q, " data-label=", Q>> \o escapeAttr(<<label>>)
    \o <<Q, " contenteditable=", Q, "false", Q, GT, label, SPAN_CLOSE, GT>>

UnitHtml(u) ==
    IF u.kind = "embed" THEN PlaceholderNode(u.ch, u.label)
    ELSE IF u.ch = SP THEN <<NBSP>> ELSE <<u.ch>>

RECURSIVE InlineHtml(_, _)
\* the units i .. of the paragraph, the units of one span together
InlineHtml(d, i) ==
    IF i >= Len(d) THEN <<>>
    ELSE LET e == First({k \in i..(Len(d) - 1) :
                           k = Len(d) - 1 \/ d[k + 1].hl # d[i].hl})
             body == Flatten([k \in 1..(e - i + 1) |-> UnitHtml(d[i + k - 1])])
         IN  (IF d[i].hl.on
              THEN HighlightNodeOpen(d[i].hl) \o body \o <<SPAN_CLOSE, GT>>
              ELSE body)
             \o InlineHtml(d, e + 1)

\* this.getSemanticHTML() of the one-paragraph document
getSemanticHTML(d) == <<"<p>">> \o InlineHtml(d, 1) \o <<"</p>">>

\* no placeholder span to read a value from
NoEmbed == [key |-> <<>>, label |-> <<>>]

\* node.getAttribute(name) of the first span of html, "" without it; the
\* parser decodes the character references of the value
getAttribute(html, name) ==
    LET j == First({i \in 1..TagPrefixEnd(html, 1) :
                      /\ html[i] = name
                      /\ i + 1 <= Len(html) /\ html[i + 1] = Q
                      /\ IndexFrom(html, Q, i + 2) # 0})
    IN  IF j = 0 THEN <<>> ELSE unescapeAttr(AttrValue(html, j))

\* node.textContent of the first span of html
textContent(html) ==
    LET g == IndexFrom(html, GT, 1)
        c == IF g = 0 THEN 0 ELSE CloseFrom(html, g + 1)
    IN  IF c = 0 THEN <<>> ELSE unescapeAttr(SubSeq(html, g + 1, c - 1))

\* QuillPlaceholderBlot.value of the node that the markup html is parsed to
BlotValue(html) ==
    IF \/ html = <<>>
       \/ html[1] # SPAN_OPEN
       \/ ~HasClass(html, 1, "ql-placeholder")
    THEN NoEmbed
    ELSE [key |-> getAttribute(html, " data-key="),
          label |-> IF getAttribute(html, " data-label=") # <<>>
                    THEN getAttribute(html, " data-label=")
                    ELSE textContent(html)]

----------------------------------------------------------------------------
(* ReactQuillWrapper: markup into the document *)

\* position i of the markup lies in a tag
InTag(s, i) ==
    \/ s[i] \in {SPAN_OPEN, SPAN_CLOSE, "<p>", "</p>"}
    \/ LET o == Last({j \in 1..(i - 1) : s[j] \in {SPAN_OPEN, SPAN_CLOSE}})
       IN  o # 0 /\ ~\E k \in (o + 1)..(i - 1) : s[k] = GT

\* the span tags of kind t strictly between j and i
TagsBetween(s, t, j, i) == Cardinality({k \in (j + 1)..(i - 1) : s[k] = t})

\* the innermost ql-highlight span open at position i, 0 for none
HighlightSpanAround(s, i) ==
    Last({j \in 1..(i - 1) :
            /\ s[j] = SPAN_OPEN
            /\ HasClass(s, j, "ql-highlight")
            /\ TagsBetween(s, SPAN_OPEN, j, i)
                   = TagsBetween(s, SPAN_CLOSE, j, i)})

\* the unit the clipboard makes of the text at position i: inside a
\* ql-highlight span it carries create(formats(node)), the value of the
\* innermost span
ConvertedUnit(s, i) ==
    LET j == HighlightSpanAround(s, i)
        node == From(s, j)
        c == IF s[i] = NBSP THEN SP ELSE s[i]
    IN  IF j = 0 THEN Char(c)
        ELSE [Char(c) EXCEPT !.hl =
                create([highlightId |->
                            getAttribute(node, " data-highlight-id="),
                        hoverTextTooltip |->
                            getAttribute(node, " data-hover-tooltip="),
                        hoverTooltipPlacement |->
                            getAttribute(node, " data-tooltip-placement="),
                        styles |-> <<>>])]

\* this.clipboard.convert({ html }): the units of the text of the markup
convert(s) ==
    LET texts == {i \in 1..Len(s) : ~InTag(s, i)}
        nth(n) == CHOOSE i \in texts :
                      Cardinality({k \in texts : k < i}) = n - 1
    IN  [n \in 1..Cardinality(texts) |-> ConvertedUnit(s, nth(n))]

\* this.setContents(delta): the document ends with a newline
setContents(delta) ==
    IF delta # <<>> /\ delta[Len(delta)] = Char("\n") THEN delta
    ELSE delta \o <<Char("\n")>>

\* the markup serialize returns for a call of the wrapper
Serialized(html) == IF html = <<>> THEN <<>> ELSE serialize(html)

loadHtml(html) == setContents(convert(Serialized(html)))

appendHtml(d, html) == setContents(d \o convert(Serialized(html)))

----------------------------------------------------------------------------
(* QuillHighlightBlot: the tooltip of a highlight span *)

\* getSelection() === null
NoSelection == -1

\* an argument that was left out
Undefined == -1

\* insertPlaceholder was not called
NoInsert == [at |-> Undefined]

\* a QuillHighlightBlotValue; <<>> stands for an absent field
Value(tip, place, id, styles) ==
    [hoverTextTooltip |-> tip, hoverTooltipPlacement |-> place,
     highlightId |-> id, styles |-> styles]

PlainValue == Value(<<>>, <<>>, <<>>, <<>>)

\* a falsy value (undefined, null, false)
NoValue == [falsy |-> TRUE]

\* format was not called
NoFormat == [called |-> FALSE]

\* el.style without a property
NoStyle == [k \in {} |-> <<>>]

\* applyStyles(node, styles) on the inline style of the node: nothing
\* without a map, else setProperty(key, styles[key]) for every key
applyStyles(style, styles) ==
    IF DOMAIN styles = {} THEN style
    ELSE [k \in DOMAIN style \cup DOMAIN styles |->
            IF k \in DOMAIN styles THEN styles[k] ELSE style[k]]

\* the span create(value) returns: mouseenter and mouseleave listeners are
\* added next to a tooltip text, and only there
Anchor(value) ==
    [hoverTextTooltip |-> create(value).hoverTextTooltip,
     hoverTooltipPlacement |-> create(value).hoverTooltipPlacement,
     highlightId |-> create(value).highlightId,
     style |-> applyStyles(NoStyle, value.styles),
     listening |-> value.hoverTextTooltip # <<>>,
     attached |-> TRUE,
     tooltipEl |-> FALSE]

\* (mutant) a format that writes the style attribute anew
formatRestyling(node, value) ==
    IF value = NoValue
    THEN [node EXCEPT
            !.style = NoStyle,
            !.highlightId = <<>>,
            !.hoverTextTooltip = <<>>,
            !.hoverTooltipPlacement = <<>>]
    ELSE [node EXCEPT
            !.style = applyStyles(NoStyle, value.styles),
            !.highlightId = value.highlightId,
            !.hoverTextTooltip = value.hoverTextTooltip,
            !.hoverTooltipPlacement =
                IF value.hoverTextTooltip # <<>>
                THEN value.hoverTooltipPlacement ELSE <<>>]

\* format("highlight", value): with a value the styles of its map are set
\* and the attributes of the element are rewritten in place; with a falsy
\* value style.cssText and the three attributes are cleared
format(node, value) ==
    IF value = NoValue
    THEN [node EXCEPT
            !.style = NoStyle,
            !.highlightId = <<>>,
            !.hoverTextTooltip = <<>>,
            !.hoverTooltipPlacement = <<>>]
    ELSE [node EXCEPT
            !.style = applyStyles(node.style, value.styles),
            !.highlightId = value.highlightId,
            !.hoverTextTooltip = value.hoverTextTooltip,
            !.hoverTooltipPlacement =
                IF value.hoverTextTooltip # <<>>
                THEN value.hoverTooltipPlacement ELSE <<>>]

\* (mutant) the reference is dropped, the node stays in the body
hideTooltipKeeping(node, n) == [node |-> [node EXCEPT !.tooltipEl = FALSE],
                                overlays |-> n]

\* hideTooltip(node), n being the tooltip nodes in the body: the node and
\* the count afterwards
hideTooltip(node, n) ==
    [node |-> [node EXCEPT !.tooltipEl = FALSE],
     overlays |-> IF node.tooltipEl THEN n - 1 ELSE n]

\* showTooltip(node): the node, the tooltip nodes in the body, the hover
\* events sent and the scroll listeners added
showTooltip(node, n) ==
    IF node.hoverTextTooltip = <<>>
    THEN [node |-> node, overlays |-> n, emitted |-> 0, hooks |-> 0]
    ELSE LET h == hideTooltip(node, n)
         IN  [node |-> [h.node EXCEPT !.tooltipEl = TRUE],
              overlays |-> h.overlays + 1,
              emitted |-> IF node.highlightId # <<>> THEN 1 ELSE 0,
              hooks |-> IF node.attached THEN 1 ELSE 0]

\* this.getLength()
getLength(d) == Len(d)

\* insertEmbed(at, "placeholder", value): the document with the embed at
\* offset `at`
insertEmbed(d, at, value) ==
    SubSeq(d, 1, at) \o <<Embed(value.key, value.label)>>
    \o SubSeq(d, at + 1, Len(d))

\* the cursor after insertEmbed(at, ...): the editor leaves it where
\* setSelection put it or moves it on by the unit inserted before it
CursorAfterInsert(cursor, at) ==
    {cursor} \cup (IF cursor > at THEN {cursor + 1} ELSE {})

\* insertPlaceholder(opts, index): the offset, the value, the document
\* in which setSelection places the cursor and the document afterwards
insertPlaceholder(d, sel, opts, index) ==
    LET at == IF index # Undefined THEN index
              ELSE IF sel # NoSelection THEN sel ELSE getLength(d)
        value == [key |-> opts.key,
                  label |-> IF "label" \in DOMAIN opts
                            THEN opts.label ELSE opts.key]
    IN  [index |-> index, from |-> sel, at |-> at, value |-> value,
         cursor |-> at + 1, placedIn |-> d,
         doc |-> insertEmbed(d, at, value)]

----------------------------------------------------------------------------
(* QuillHighlightBlot: where the tooltip is put *)

TOOLTIP_OFFSET == 8

\* translate(x, y) of a style, each a percentage of the element's own size
\* plus pixels
Translate(xpct, xpx, ypct, ypx) ==
    [xpct |-> xpct, xpx |-> xpx, ypct |-> ypct, ypx |-> ypx]

\* a DOMRect
Rect(left, top, width, height) ==
    [left |-> left, top |-> top, width |-> width, height |-> height,
     right |-> left + width, bottom |-> top + height]

\* getTooltipStyles(placement, rect): left, top and transform
getTooltipStyles(placement, rect) ==
    CASE placement = <<"bottom">> ->
            [left |-> rect.left + rect.width \div 2, top |-> rect.bottom,
             transform |-> Translate(-50, 0, 0, TOOLTIP_OFFSET)]
      [] placement = <<"left">> ->
            [left |-> rect.left, top |-> rect.top + rect.height \div 2,
             transform |-> Translate(-100, -TOOLTIP_OFFSET, -50, 0)]
      [] placement = <<"right">> ->
            [left |-> rect.right, top |-> rect.top + rect.height \div 2,
             transform |-> Translate(0, TOOLTIP_OFFSET, -50, 0)]
      [] OTHER ->
            [left |-> rect.left + rect.width \div 2, top |-> rect.top,
             transform |-> Translate(-50, 0, -100, -TOOLTIP_OFFSET)]

PLACEMENT_OPPOSITE(placement) ==
    CASE placement = <<"top">> -> <<"bottom">>
      [] placement = <<"bottom">> -> <<"top">>
      [] placement = <<"left">> -> <<"right">>
      [] placement = <<"right">> -> <<"left">>

\* el.getBoundingClientRect() of a fixed element of the given size with
\* these styles
getBoundingClientRect(styles, width, height) ==
    Rect(styles.left + (styles.transform.xpct * width) \div 100
            + styles.transform.xpx,
         styles.top + (styles.transform.ypct * height) \div 100
            + styles.transform.ypx,
         width, height)

isTooltipInViewport(rect, vw, vh) ==
    LET pad == 4
    IN  /\ rect.left >= pad
        /\ rect.right <= vw - pad
        /\ rect.top >= pad
        /\ rect.bottom <= vh - pad

Max(a, b) == IF a >= b THEN a ELSE b
Min(a, b) == IF a <= b THEN a ELSE b

\* (mutant) the requested side is kept whether it fits or not
FlipNever(placement, box, vw, vh) == placement

\* the side after the first isTooltipInViewport test
Flip(placement, box, vw, vh) ==
    IF isTooltipInViewport(box, vw, vh) THEN placement
    ELSE PLACEMENT_OPPOSITE(placement)

\* the part of showTooltip that places the tooltip of size width x height
\* next to the span at rect: data-placement (<<>> once removed) and the
\* rectangle of the tooltip
PlaceTooltip(g) ==
    LET requested == IF g.placement = <<>> THEN <<"top">> ELSE g.placement
        first == getBoundingClientRect(getTooltipStyles(requested, g.rect),
                                       g.width, g.height)
        placement == Flip(requested, first, g.vw, g.vh)
        tooltipRect == getBoundingClientRect(
                           getTooltipStyles(placement, g.rect),
                           g.width, g.height)
        left == Max(4, Min(tooltipRect.left, g.vw - tooltipRect.width - 4))
        top == Max(4, Min(tooltipRect.top, g.vh - tooltipRect.height - 4))
    IN  IF isTooltipInViewport(tooltipRect, g.vw, g.vh)
        THEN [placement |-> placement, rect |-> tooltipRect]
        ELSE [placement |-> <<>>,
              rect |-> getBoundingClientRect(
                           [left |-> left, top |-> top,
                            transform |-> Translate(0, 0, 0, 0)],
                           g.width, g.height)]

\* no rectangle was asked for, no tooltip was placed
NoGeometry == [placement |-> <<>>]
NoBox == [placement |-> <<>>]

PlacementIdle == geometry = NoGeometry /\ overlayBox = NoBox

TooltipIdle ==
    /\ anchor = Anchor(PlainValue)
    /\ overlays = 0
    /\ scrollHooks = 0
    /\ hovers = 0
    /\ emitted = 0
    /\ mounted = TRUE
    /\ shownBefore = FALSE
    /\ formatted = NoFormat

----------------------------------------------------------------------------
(* Inputs *)

MaxKeyLen == 3
MaxMarkupFrags == 4
MaxStorageFrags == 4
MaxRequests == 2
MaxCalls == 2
MaxDocLen == 3
MaxPhraseLen == 2

\* the strings made of at most n fragments of F
Strings(F, n) == {Flatten(fs) : fs \in UNION {[1..k -> F] : k \in 0..n}}

\* a highlight request (ReactQuillWrapperHighlightTextItem, with the two
\* colour fields of HighlightTextItem that htmlWithHighlightText reads);
\* <<>> stands for an absent string, "undefined" for an absent flag
Request(text, ci, tip, place, id, styles, tc, hc) ==
    [text |-> text, caseInsensitive |-> ci, hoverTextTooltip |-> tip,
     hoverTooltipPlacement |-> place, highlightId |-> id, styles |-> styles,
     textColor |-> tc, highlightColor |-> hc]

DEFAULT_EDITOR_BLOTS ==
    [enablePlaceholderBlot |-> TRUE, enableHighlightBlot |-> TRUE]

\* the characters a placeholder key is made of ("}" cannot occur in a key)
KeyLexemes == {"A", SP, Q, GT, "{", SPAN_CLOSE}

TokenInputs ==
    {<<"{", "{">> \o k \o <<"}", "}">> :
        k \in UNION {[1..n -> KeyLexemes] : n \in 1..MaxKeyLen}}

\* opening tags as the editor and the codecs write them
StyledHighlightTag ==
    HighlightOpen(ColorStyle(<<"red">>, <<"yellow">>), <<>>)
EmptyStyleHighlightTag == HighlightOpen(<<>>, <<>>)
PlainStyleTag == <<SPAN_OPEN, " style=", Q, Q, GT>>
StyleOnlyTag ==
    <<SPAN_OPEN, " style=", Q>> \o ColorStyle(<<"red">>, <<"yellow">>)
    \o <<Q, GT>>
DataHighlightTag ==
    <<SPAN_OPEN, " data-highlight", " data-text-color=", Q, "red", Q,
      " data-highlight-color=", Q, "yellow", Q, GT>>
CloseTag == <<SPAN_CLOSE, GT>>

MarkupFragments ==
    {<<"A">>, StyledHighlightTag, EmptyStyleHighlightTag, PlainStyleTag,
     StyleOnlyTag, DataHighlightTag, CloseTag}

MarkupInputs == Strings(MarkupFragments, MaxMarkupFrags)

StorageFragments ==
    {<<"{", "{">>, <<"}", "}">>, <<"A">>, <<SP>>, <<"B">>, <<NBSP>>}

StorageInputs == Strings(StorageFragments, MaxStorageFrags)

StorageRequests ==
    {Request(<<"A">>, "undefined", <<>>, <<>>, <<>>, <<>>, <<>>, <<>>),
     Request(<<"A", SP, "B">>, "undefined", <<"T">>, <<"top">>, <<>>, <<>>,
             <<"red">>, <<"yellow">>)}

RequestLists(R) == UNION {[1..n -> R] : n \in 0..MaxRequests}

\* the documents of the editor: one paragraph of at most n units, closed by
\* the newline that every document ends with
Docs(U, n) ==
    {u \o <<Char("\n")>> : u \in UNION {[1..k -> U] : k \in 0..n}}

TextChars == {"a", "A", "b"}
Units == {Char(c) : c \in TextChars} \cup {Embed("K", "K")}

EditorDocs == Docs(Units, MaxDocLen)

\* the requests given to the wrapper
PlainRequest ==
    Request(<<"a">>, "undefined", <<>>, <<>>, <<>>, <<>>, <<>>, <<>>)
EditorRequests ==
    {PlainRequest,
     Request(<<"a", "b">>, "true", <<"T">>, <<"top">>, <<"1">>,
             <<<<"background-color:", "yellow">>>>, <<>>, <<>>),
     Request(<<"b">>, "false", <<>>, <<"top">>, <<"2">>, <<>>, <<>>, <<>>),
     Request(<<"A">>, "false", <<>>, <<>>, <<"1">>,
             <<<<"color:", "red">>, <<"background-color:", "yellow">>>>,
             <<>>, <<>>),
     Request(<<SP>>, "undefined", <<>>, <<>>, <<"3">>, <<>>, <<>>, <<>>)}

\* the documents searched: the units may carry a highlight already, which
\* splits the text into runs; and the documents of the examples
Highlighted(u) == [u EXCEPT !.hl = create(PlainRequest)]
Text(s) == [i \in 1..Len(s) |-> Char(s[i])]
EmbedExample ==
    Text(<<"a", "b">>) \o <<Embed("K", "K")>> \o Text(<<"c", "d", "\n">>)
CaseExample ==
    Text(<<"h", "e", "l", "l", "o", SP, "H", "E", "L", "L", "O", SP,
           "H", "e", "l", "l", "o", "\n">>)
SearchDocs ==
    Docs(Units \cup {Highlighted(Char("a"))}, MaxDocLen)
    \cup {EmbedExample, CaseExample}

Phrases ==
    UNION {[1..n -> TextChars] : n \in 0..MaxPhraseLen}
    \cup {<<"b", "c">>, <<"c", "d">>, <<"H", "e", "l", "l", "o">>}

Flags == {"undefined", "true", "false"}

----------------------------------------------------------------------------
(* The codec functions, called one after the other on a string *)

CodecInit(inputs, lists) ==
    /\ src \in inputs
    /\ buf = src
    /\ prev = src
    /\ calls = <<>>
    /\ highlightText \in lists
    /\ blots = DEFAULT_EDITOR_BLOTS
    /\ doc = <<Char("\n")>>
    /\ before = doc
    /\ located = <<>>
    /\ extracted = <<>>
    /\ lastOp = "new"
    /\ thrown = <<>>
    /\ searchText = <<>>
    /\ options = "undefined"
    /\ ranges = <<>>
    /\ selection = NoSelection
    /\ inserted = NoInsert
    /\ TooltipIdle
    /\ PlacementIdle

Call(name, result) ==
    /\ Len(calls) < MaxCalls
    /\ buf' = result
    /\ prev' = buf
    /\ calls' = Append(calls, name)
    /\ UNCHANGED <<src, highlightText, blots, editorVars, searchVars,
                   thrown, cursorVars, tooltipVars, placementVars>>

PlaceholderToHtml ==
    Call("htmlWithPlaceholderTokensToHtml", htmlWithPlaceholderTokensToHtml(buf))

PlaceholderToTokens ==
    Call("semanticHtmlToPlaceholderTokens", semanticHtmlToPlaceholderTokens(buf))

StripHighlights ==
    Call("semanticHtmlToHighlightTokens", semanticHtmlToHighlightTokens(buf))

\* serialize returns "" for an empty string before it looks at the blots
Serialize == Call("serialize", IF buf = <<>> THEN <<>> ELSE serialize(buf))

Deserialize == Call("deserialize", deserialize(buf))

PlaceholderInit == CodecInit(TokenInputs, {<<>>})
PlaceholderNext == PlaceholderToHtml \/ PlaceholderToTokens
SpecPlaceholder == PlaceholderInit /\ [][PlaceholderNext]_vars

StripInit == CodecInit(MarkupInputs, {<<>>})
StripNext == StripHighlights
SpecStrip == StripInit /\ [][StripNext]_vars

StorageInit == CodecInit(StorageInputs, RequestLists(StorageRequests))
StorageNext == Serialize \/ Deserialize
SpecStorage == StorageInit /\ [][StorageNext]_vars

----------------------------------------------------------------------------
(* The search, called once on a document *)

SearchInit ==
    /\ doc \in SearchDocs
    /\ before = doc
    /\ src = <<>> /\ buf = <<>> /\ prev = <<>> /\ calls = <<>>
    /\ highlightText = <<>>
    /\ blots = DEFAULT_EDITOR_BLOTS
    /\ located = <<>>
    /\ extracted = <<>>
    /\ lastOp = "new"
    /\ thrown = <<>>
    /\ searchText = <<>>
    /\ options = "undefined"
    /\ ranges = <<>>
    /\ selection = NoSelection
    /\ inserted = NoInsert
    /\ TooltipIdle
    /\ PlacementIdle

\* findTextRangesInDelta(this.getContents(), phrase, {caseInsensitive: flag})
Find ==
    \E phrase \in Phrases, flag \in Flags :
        /\ lastOp = "new"
        /\ searchText' = phrase
        /\ options' = flag
        /\ ranges' = findTextRangesInDelta(getContents(doc), phrase, flag)
        /\ lastOp' = "findTextRangesInDelta"
        /\ UNCHANGED <<thrown, cursorVars, tooltipVars, placementVars>>
        /\ UNCHANGED <<codecVars, highlightText, blots, doc, before, located,
                       extracted>>

SearchNext == Find
SpecSearch == SearchInit /\ [][SearchNext]_vars

----------------------------------------------------------------------------
(* The wrapper of one editor *)

Init ==
    /\ doc \in EditorDocs
    /\ before = doc
    /\ src = <<>> /\ buf = <<>> /\ prev = <<>> /\ calls = <<>>
    /\ highlightText = <<>>
    /\ blots \in {DEFAULT_EDITOR_BLOTS,
                  [DEFAULT_EDITOR_BLOTS EXCEPT !.enableHighlightBlot = FALSE]}
    /\ located = <<>>
    /\ extracted = <<>>
    /\ lastOp = "new"
    /\ thrown = <<>>
    /\ searchText = <<>>
    /\ options = "undefined"
    /\ ranges = <<>>
    /\ selection = NoSelection
    /\ inserted = NoInsert
    /\ TooltipIdle
    /\ PlacementIdle

\* an operation of the wrapper: `calls` keeps the names of the operations
OpWithin(name, n) ==
    /\ Len(calls) < n
    /\ calls' = Append(calls, name)
    /\ lastOp' = name
    /\ thrown' = <<>>
    /\ before' = doc
    /\ UNCHANGED <<src, buf, prev, blots, searchVars, tooltipVars,
                   placementVars>>

Op(name) == OpWithin(name, MaxCalls)

SetHighlightText ==
    \E items \in RequestLists(EditorRequests) :
        /\ Len(items) <= 1
        /\ Op("setHighlightText")
        /\ UNCHANGED cursorVars
        /\ highlightText' = items
        /\ UNCHANGED <<doc, located, extracted>>

ApplyHighlights ==
    \E items \in RequestLists(EditorRequests) :
        /\ Op("applyHighlights")
        /\ UNCHANGED cursorVars
        /\ IF ~blots.enableHighlightBlot \/ items = <<>>
           THEN /\ located' = <<>>
                /\ UNCHANGED <<doc, highlightText>>
           ELSE /\ highlightText' = items
                /\ located' = SortByIndex(Locate(getContents(doc), items))
                /\ doc' = FormatAll(doc, located')
        /\ UNCHANGED extracted

\* (mutant) a removal that also forgets the stored requests
RemoveAllForgetting(n) ==
    /\ OpWithin("removeAllHighlights", n)
    /\ UNCHANGED cursorVars
    /\ IF ~blots.enableHighlightBlot THEN UNCHANGED doc
       ELSE doc' = ClearAll(doc, SortByIndex(getHighlightRanges(doc)))
    /\ highlightText' = <<>>
    /\ UNCHANGED <<located, extracted>>

RemoveAllWithin(n) ==
    /\ OpWithin("removeAllHighlights", n)
    /\ UNCHANGED cursorVars
    /\ IF ~blots.enableHighlightBlot THEN UNCHANGED doc
       ELSE doc' = ClearAll(doc, SortByIndex(getHighlightRanges(doc)))
    /\ UNCHANGED <<highlightText, located, extracted>>

RemoveAllHighlights == RemoveAllWithin(MaxCalls)

\* deserialize() without an argument: the markup of the document
DeserializeDocument ==
    /\ Op("deserialize")
    /\ UNCHANGED cursorVars
    /\ extracted' = deserialize(getSemanticHTML(doc))
    /\ UNCHANGED <<doc, highlightText, located>>

Next ==
    \/ SetHighlightText
    \/ ApplyHighlights
    \/ RemoveAllHighlights
    \/ DeserializeDocument

Spec == Init /\ [][Next]_vars

----------------------------------------------------------------------------
(* The wrapper of one editor, loading markup *)

ReloadDocs ==
    {<<Char("\n")>>, <<Char("A"), Char("\n")>>,
     <<Char("B"), Char("A"), Char(SP), Char("B"), Char("\n")>>}

\* the request lists given to the wrapper: none or one request
ReloadLists == {items \in RequestLists(StorageRequests) : Len(items) <= 1}

ReloadInputs ==
    {<<>>, <<"A">>, <<"B">>, <<"A", SP, "B">>, <<"<p>", "B", "A", "</p>">>}

MaxReloads == 3

ReloadOp(name) == OpWithin(name, MaxReloads)

ReloadInit ==
    /\ doc \in ReloadDocs
    /\ before = doc
    /\ src = <<>> /\ buf = <<>> /\ prev = <<>> /\ calls = <<>>
    /\ highlightText = <<>>
    /\ blots \in {DEFAULT_EDITOR_BLOTS,
                  [DEFAULT_EDITOR_BLOTS EXCEPT !.enableHighlightBlot = FALSE]}
    /\ located = <<>>
    /\ extracted = <<>>
    /\ lastOp = "new"
    /\ thrown = <<>>
    /\ searchText = <<>>
    /\ options = "undefined"
    /\ ranges = <<>>
    /\ selection = NoSelection
    /\ inserted = NoInsert
    /\ TooltipIdle
    /\ PlacementIdle

StoreHighlightText ==
    \E items \in ReloadLists :
        /\ ReloadOp("setHighlightText")
        /\ highlightText' = items
        /\ UNCHANGED <<doc, located, extracted, cursorVars>>

ApplyStored ==
    \E items \in ReloadLists :
        /\ ReloadOp("applyHighlights")
        /\ UNCHANGED cursorVars
        /\ IF ~blots.enableHighlightBlot \/ items = <<>>
           THEN /\ located' = <<>>
                /\ UNCHANGED <<doc, highlightText>>
           ELSE /\ highlightText' = items
                /\ located' = SortByIndex(Locate(getContents(doc), items))
                /\ doc' = FormatAll(doc, located')
        /\ UNCHANGED extracted

RemoveStored == RemoveAllWithin(MaxReloads)

LoadHtml ==
    \E html \in ReloadInputs :
        /\ ReloadOp("loadHtml")
        /\ doc' = loadHtml(html)
        /\ UNCHANGED <<highlightText, located, extracted, cursorVars>>

AppendHtml ==
    \E html \in ReloadInputs :
        /\ ReloadOp("appendHtml")
        /\ doc' = appendHtml(doc, html)
        /\ UNCHANGED <<highlightText, located, extracted, cursorVars>>

\* the document has one paragraph (the markup of more is not modelled)
OneParagraph(d) == \A i \in 1..(Len(d) - 1) : d[i].ch # "\n"

RefreshContent ==
    /\ OneParagraph(doc)
    /\ ReloadOp("refreshContent")
    /\ doc' = loadHtml(getSemanticHTML(doc))
    /\ UNCHANGED <<highlightText, located, extracted, cursorVars>>

ReloadNext ==
    \/ StoreHighlightText
    \/ ApplyStored
    \/ RemoveStored
    \/ LoadHtml
    \/ AppendHtml
    \/ RefreshContent

SpecReload == ReloadInit /\ [][ReloadNext]_vars

----------------------------------------------------------------------------
(* The events on one highlight span *)

MaxHovers == 3

TooltipValues ==
    {Value(tip, place, id, <<>>) :
        tip \in {<<>>, <<"T">>}, place \in {<<>>, <<"bottom">>},
        id \in {<<>>, <<"1">>}}

\* the values of restyling: every part present or absent
StyleMaps ==
    UNION {[P -> {"red", "blue"}] : P \in SUBSET {"color", "background-color"}}

FormatValues ==
    {Value(tip, <<>>, id, st) :
        tip \in {<<>>, <<"T">>}, id \in {<<>>, <<"1">>}, st \in StyleMaps}

TooltipInitOf(values) ==
    /\ anchor \in {Anchor(v) : v \in values}
    /\ overlays = 0
    /\ scrollHooks = 0
    /\ hovers = 0
    /\ emitted = 0
    /\ mounted = TRUE
    /\ shownBefore = FALSE
    /\ formatted = NoFormat
    /\ PlacementIdle
    /\ src = <<>> /\ buf = <<>> /\ prev = <<>> /\ calls = <<>>
    /\ highlightText = <<>>
    /\ blots = DEFAULT_EDITOR_BLOTS
    /\ doc = <<Char("\n")>>
    /\ before = doc
    /\ located = <<>>
    /\ extracted = <<>>
    /\ lastOp = "new"
    /\ thrown = <<>>
    /\ searchText = <<>>
    /\ options = "undefined"
    /\ ranges = <<>>
    /\ selection = NoSelection
    /\ inserted = NoInsert

TooltipInit == TooltipInitOf(TooltipValues)

\* an event on the span or its editor
Event(name) ==
    /\ lastOp' = name
    /\ shownBefore' = anchor.tooltipEl
    /\ UNCHANGED <<codecVars, wrapperVars, doc, before, located, extracted,
                   searchVars, thrown, cursorVars, placementVars>>

\* the blot is formatted again (formatText on its range); the host unwraps
\* a blot formatted with a falsy value, which ends its formats
FormatWith(values) ==
    \E value \in values :
        /\ anchor.attached
        /\ formatted # NoValue
        /\ Event("format")
        /\ anchor' = format(anchor, value)
        /\ formatted' = value
        /\ emitted' = 0
        /\ UNCHANGED <<overlays, scrollHooks, hovers, mounted>>

\* with a value
Format == FormatWith(TooltipValues)

\* with a value, with or without a style map, or with a falsy value
Reformat == FormatWith(FormatValues \cup {NoValue})

\* mouseenter on the span: the listener, if create() added one
HoverEnter ==
    /\ anchor.attached
    /\ hovers < MaxHovers
    /\ Event("mouseenter")
    /\ hovers' = hovers + 1
    /\ LET s == showTooltip(anchor, overlays)
       IN  IF anchor.listening
           THEN /\ anchor' = s.node
                /\ overlays' = s.overlays
                /\ emitted' = s.emitted
                /\ scrollHooks' = scrollHooks + s.hooks
           ELSE /\ emitted' = 0
                /\ UNCHANGED <<anchor, overlays, scrollHooks>>
    /\ UNCHANGED <<mounted, formatted>>

\* mouseleave on the span
HoverLeave ==
    /\ anchor.attached
    /\ Event("mouseleave")
    /\ emitted' = 0
    /\ IF anchor.listening
       THEN /\ anchor' = hideTooltip(anchor, overlays).node
            /\ overlays' = hideTooltip(anchor, overlays).overlays
       ELSE UNCHANGED <<anchor, overlays>>
    /\ UNCHANGED <<scrollHooks, hovers, mounted, formatted>>

\* scroll of .ql-editor: every pending once-listener runs hideTooltip
Scroll ==
    /\ mounted
    /\ Event("scroll")
    /\ emitted' = 0
    /\ scrollHooks' = 0
    /\ IF scrollHooks > 0
       THEN /\ anchor' = hideTooltip(anchor, overlays).node
            /\ overlays' = hideTooltip(anchor, overlays).overlays
       ELSE UNCHANGED <<anchor, overlays>>
    /\ UNCHANGED <<hovers, mounted, formatted>>

\* QuillHighlightBlot.detach: the blot leaves the document
Detach ==
    /\ anchor.attached
    /\ Event("detach")
    /\ emitted' = 0
    /\ anchor' = [hideTooltip(anchor, overlays).node EXCEPT !.attached = FALSE]
    /\ overlays' = hideTooltip(anchor, overlays).overlays
    /\ UNCHANGED <<scrollHooks, hovers, mounted, formatted>>

\* the cleanup of the effect of ReactQuillEditor: container.innerHTML = ""
Unmount ==
    /\ mounted
    /\ Event("unmount")
    /\ emitted' = 0
    /\ mounted' = FALSE
    /\ anchor' = [anchor EXCEPT !.attached = FALSE]
    /\ scrollHooks' = 0
    /\ UNCHANGED <<overlays, hovers, formatted>>

TooltipNext ==
    \/ Format
    \/ HoverEnter
    \/ HoverLeave
    \/ Scroll
    \/ Detach
    \/ Unmount

SpecTooltip == TooltipInit /\ [][TooltipNext]_vars

\* the formats of one highlight span, styled or not when it was made
FormatInit == TooltipInitOf(FormatValues)
SpecFormat == FormatInit /\ [][Reformat]_vars

----------------------------------------------------------------------------
(* The placement of one tooltip *)

MaxAnchorHalf == 2
MaxOffsetHalf == 6
MaxOverlayHalf == 5

\* whole pixels with a whole half
Even(lo, hi) == {2 * k : k \in lo..hi}

\* clientWidth and clientHeight of the document element: no tooltip is
\* larger than the viewport
Viewports == {2 * MaxOverlayHalf + 2, 2 * MaxOverlayHalf + 6}

Placements == {<<>>, <<"top">>, <<"bottom">>, <<"left">>, <<"right">>}

Geometries ==
    {[placement |-> p, rect |-> Rect(l, t, w, h),
      width |-> tw, height |-> th, vw |-> vw, vh |-> vh] :
        p \in Placements,
        l \in Even(0, MaxOffsetHalf), t \in Even(0, MaxOffsetHalf),
        w \in Even(1, MaxAnchorHalf), h \in Even(1, MaxAnchorHalf),
        tw \in Even(1, MaxOverlayHalf), th \in Even(1, MaxOverlayHalf),
        vw \in Viewports, vh \in Viewports}

PlacementInit ==
    /\ geometry \in Geometries
    /\ overlayBox = NoBox
    /\ TooltipIdle
    /\ src = <<>> /\ buf = <<>> /\ prev = <<>> /\ calls = <<>>
    /\ highlightText = <<>>
    /\ blots = DEFAULT_EDITOR_BLOTS
    /\ doc = <<Char("\n")>>
    /\ before = doc
    /\ located = <<>>
    /\ extracted = <<>>
    /\ lastOp = "new"
    /\ thrown = <<>>
    /\ searchText = <<>>
    /\ options = "undefined"
    /\ ranges = <<>>
    /\ selection = NoSelection
    /\ inserted = NoInsert

\* showTooltip puts the tooltip next to the span
Place ==
    /\ lastOp = "new"
    /\ lastOp' = "showTooltip"
    /\ overlayBox' = PlaceTooltip(geometry)
    /\ UNCHANGED <<codecVars, wrapperVars, doc, before, located, extracted,
                   searchVars, thrown, cursorVars, tooltipVars, geometry>>

SpecPlacement == PlacementInit /\ [][Place]_vars

----------------------------------------------------------------------------
(* Placeholders inserted at the cursor *)

PlaceholderOptions == {[key |-> "K"], [key |-> "K", label |-> "L"]}

InsertInit ==
    /\ doc \in EditorDocs
    /\ before = doc
    /\ selection \in {NoSelection} \cup (0..(Len(doc) - 1))
    /\ inserted = NoInsert
    /\ src = <<>> /\ buf = <<>> /\ prev = <<>> /\ calls = <<>>
    /\ highlightText = <<>>
    /\ blots = DEFAULT_EDITOR_BLOTS
    /\ located = <<>>
    /\ extracted = <<>>
    /\ lastOp = "new"
    /\ thrown = <<>>
    /\ searchText = <<>>
    /\ options = "undefined"
    /\ ranges = <<>>
    /\ TooltipIdle
    /\ PlacementIdle

\* one call of insertPlaceholder(o, index)
InsertPlaceholder ==
    \E o \in PlaceholderOptions,
       index \in {Undefined} \cup (0..(Len(doc) - 1)) :
        LET r == insertPlaceholder(doc, selection, o, index)
        IN  /\ lastOp = "new"
            /\ Op("insertPlaceholder")
            /\ doc' = r.doc
            /\ inserted' = [index |-> r.index, from |-> r.from, at |-> r.at,
                            value |-> r.value, placedIn |-> r.placedIn]
            /\ selection' \in CursorAfterInsert(r.cursor, r.at)
            /\ UNCHANGED <<highlightText, located, extracted>>

SpecInsert == InsertInit /\ [][InsertPlaceholder]_vars

----------------------------------------------------------------------------
(* The markup of one placeholder embed, stored and loaded again *)

LabelKeys == {"K", "A", SP, Q, GT, "&", "{", "}"}
Labels == {"K", "L", "A"}

\* the markup of the embeds that create({key, label}) makes
LabelledSpans == {PlaceholderNode(k, l) : k \in LabelKeys, l \in Labels}

LabelInit == CodecInit(LabelledSpans, {<<>>})
SpecLabel == LabelInit /\ [][PlaceholderNext]_vars

----------------------------------------------------------------------------
(* Placeholder markup without a key *)

MaxMalformedFrags == 4

KeylessTag == <<SPAN_OPEN, " class=", Q, "ql-placeholder", Q, GT>>
LabelOnlyTag ==
    <<SPAN_OPEN, " class=", Q, "ql-placeholder", Q, " data-label=", Q, "K", Q,
      GT>>

\* spans without data-key, their pieces, and the span written for {{K}}
MalformedFragments ==
    {KeylessTag, LabelOnlyTag, <<"A">>, CloseTag, PlaceholderSpan(<<"K">>)}

MalformedInputs == Strings(MalformedFragments, MaxMalformedFrags)

MalformedInit == CodecInit(MalformedInputs, {<<>>})
SpecMalformed == MalformedInit /\ [][PlaceholderToTokens]_vars

----------------------------------------------------------------------------
(* The do-while loop of semanticHtmlToHighlightTokens, one iteration a step *)

LoopInit == CodecInit({<<>>}, {<<>>})

LoopFrame ==
    UNCHANGED <<highlightText, blots, doc, before, located,
                extracted, searchVars, thrown, cursorVars, tooltipVars,
                placementVars>>

\* semanticHtmlToHighlightTokens(html) is called: let out = html
Enter ==
    /\ lastOp = "new"
    /\ \E html \in MarkupInputs :
           /\ src' = html
           /\ buf' = html
           /\ prev' = html
    /\ lastOp' = "do"
    /\ UNCHANGED calls
    /\ LoopFrame

\* one iteration: the three replacements, then the test out !== prev;
\* `calls` counts the iterations
Iterate ==
    /\ lastOp = "do"
    /\ prev' = buf
    /\ buf' = StripPass(buf)
    /\ lastOp' = IF buf' # prev' THEN "do" ELSE "return"
    /\ calls' = Append(calls, "do")
    /\ UNCHANGED src
    /\ LoopFrame

LoopNext == Enter \/ Iterate
SpecLoop == LoopInit /\ [][LoopNext]_vars






----------------------------------------------------------------------------
\* the key K of a caller string {{K}}
KeyOf(s) == SubSeq(s, 3, Len(s) - 2)

RoundTripped ==
    calls = <<"htmlWithPlaceholderTokensToHtml",
              "semanticHtmlToPlaceholderTokens">>

\* K has no double quote, no padding and no "</span>" in it
PlainKey(k) ==
    /\ \A i \in 1..Len(k) : k[i] # Q
    /\ Trim(k) = k
    /\ CloseFrom(k, 1) = 0

C3_StripIdempotent ==
    calls = <<"semanticHtmlToHighlightTokens",
              "semanticHtmlToHighlightTokens">> => buf = prev

C3_Witness ==
    /\ calls = <<"semanticHtmlToHighlightTokens",
                 "semanticHtmlToHighlightTokens">>
    /\ prev # src
    /\ StripPass(src) # prev

(* C1: deserialize(serialize(x)) = x for every storage text x and every    *)
(* stored request list, both blots enabled.  Stated for the texts that the *)
(* placeholder codec alone returns unchanged and that hold no &nbsp;, so   *)
(* that neither the trimming of keys nor the &nbsp; normalisation is what  *)
(* the round trip is measured against.                                      *)
C1_StorageRoundTrip ==
    ( /\ calls = <<"serialize", "deserialize">>
      /\ blots = DEFAULT_EDITOR_BLOTS
      /\ IndexFrom(src, NBSP, 1) = 0
      /\ semanticHtmlToPlaceholderTokens(
             htmlWithPlaceholderTokensToHtml(src)) = src )
        => buf = src

----------------------------------------------------------------------------
(* The plain-text projection of a document, stated on its units *)

\* the offsets of the text characters of d
TextOffsets(d) == {o \in 0..(Len(d) - 1) : d[o + 1].kind = "text"}

\* the document offset of the text character at projection index p
offsetOf(d, p) ==
    CHOOSE o \in TextOffsets(d) :
        Cardinality({q \in TextOffsets(d) : q < o}) = p

SameLetter(x, y, anyCase) ==
    IF anyCase THEN LowerOf(x) = LowerOf(y) ELSE x = y

\* the projection indices at which the phrase occurs
Occurrences(d, phrase, anyCase) ==
    {p \in 0..(Cardinality(TextOffsets(d)) - Len(phrase)) :
        \A i \in 1..Len(phrase) :
            SameLetter(d[offsetOf(d, p + i - 1) + 1].ch, phrase[i], anyCase)}

Searched == lastOp = "findTextRangesInDelta" /\ searchText # <<>>

Starts == {ranges[k].index : k \in 1..Len(ranges)}

EmbedsIn(d, r) ==
    Cardinality({o \in r.index..(r.index + r.length - 1) :
                    d[o + 1].kind = "embed"})

Covered(d, r) ==
    LET O == {o \in r.index..(r.index + r.length - 1) : d[o + 1].kind = "text"}
    IN  [i \in 1..Cardinality(O) |->
            d[(CHOOSE o \in O : Cardinality({q \in O : q < o}) = i - 1) + 1].ch]

----------------------------------------------------------------------------
\* the units that the last applyHighlights put a highlight on
Applied == lastOp = "applyHighlights"

\* unit i of d lies in an occurrence of the text of a request
InOccurrence(d, i, item, anyCase) ==
    \E p \in Occurrences(d, item.text, anyCase) :
        /\ offsetOf(d, p) <= i - 1
        /\ i - 1 <= offsetOf(d, p + Len(item.text) - 1)

(* C9: applyHighlights matches a request that does not set caseInsensitive *)
(* in the very case of its text; only a request with caseInsensitive true  *)
(* is matched whatever the case.                                            *)
C9_OmittedFlagCaseSensitive ==
    Applied =>
        \A i \in 1..Len(doc) :
            (doc[i].hl.on /\ ~before[i].hl.on) =>
                \E k \in 1..Len(highlightText) :
                    /\ ~IsBlank(highlightText[k].text)
                    /\ InOccurrence(before, i, highlightText[k],
                                    highlightText[k].caseInsensitive = "true")

NonOverlapping(rs) ==
    \A j, k \in 1..Len(rs) :
        j < k => \/ rs[j].index + rs[j].length <= rs[k].index
                 \/ rs[k].index + rs[k].length <= rs[j].index

Reverse(rs) == [k \in 1..Len(rs) |-> rs[Len(rs) + 1 - k]]

(* C10: when the located ranges do not overlap, applying them in           *)
(* descending order of start, as applyHighlights does, and in ascending    *)
(* order give the same document: the same ops with the same attributes.    *)
C10_OrderIndependent ==
    (Applied /\ NonOverlapping(located)) =>
        getContents(FormatAll(before, Reverse(located))) = getContents(doc)

C10_Witness ==
    /\ Applied
    /\ NonOverlapping(located)
    /\ \E j, k \in 1..Len(located) :
          /\ located[j].index + located[j].length = located[k].index
          /\ located[j].value # located[k].value
    /\ doc # before

(* C4: the storage text that deserialize returns for the markup of the     *)
(* document holds no ql-placeholder span and no ql-highlight span, also    *)
(* when a highlight span has neither a style nor a data-highlight          *)
(* attribute.                                                               *)
C4_NoCanonicalMarkup ==
    (lastOp = "deserialize" /\ blots = DEFAULT_EDITOR_BLOTS) =>
        \A i \in 1..Len(extracted) :
            extracted[i] = SPAN_OPEN =>
                /\ ~HasClass(extracted, i, "ql-highlight")
                /\ ~HasClass(extracted, i, "ql-placeholder")

----------------------------------------------------------------------------
\* the characters and embeds of d, without their formatting
Content(d) == [i \in 1..Len(d) |-> [kind |-> d[i].kind, ch |-> d[i].ch]]

\* the ranges that the last removeAllHighlights cleared, in its order
Cleared == SortByIndex(getHighlightRanges(before))

(* C11: during a pass of applyHighlights or removeAllHighlights the length *)
(* of the document and its sequence of characters and embeds never change: *)
(* after every formatText of the pass they are what they were when the     *)
(* ranges were located.                                                     *)
C11_FormattingOnly ==
    /\ Applied =>
          \A k \in 0..Len(located) :
              Content(FormatAll(before, SubSeq(located, 1, k)))
                  = Content(before)
    /\ lastOp = "removeAllHighlights" =>
          \A k \in 0..Len(Cleared) :
              Content(ClearAll(before, SubSeq(Cleared, 1, k)))
                  = Content(before)
    /\ lastOp \in {"applyHighlights", "removeAllHighlights"} =>
          Content(doc) = Content(before)

C11_Witness ==
    /\ Applied
    /\ Len(located) >= 2
    /\ \E i \in 1..Len(doc) : doc[i].kind = "embed" /\ doc[i].hl.on
    /\ \E i \in 1..Len(doc) : doc[i].kind = "text" /\ doc[i].hl.on
    /\ Content(doc) = Content(before)

HasHighlight(d) == \E i \in 1..Len(d) : d[i].hl.on

(* C12: after removeAllHighlights with the highlight blot enabled no op of *)
(* the document carries the highlight attribute, whatever was applied      *)
(* before; with the highlight blot disabled the call changes nothing.      *)
C12_RemoveAllClears ==
    lastOp = "removeAllHighlights" =>
        IF blots.enableHighlightBlot
        THEN \A n \in 1..Len(getContents(doc)) :
                 ~getContents(doc)[n].attributes.on
        ELSE doc = before

C12_Witness ==
    /\ lastOp = "removeAllHighlights"
    /\ blots.enableHighlightBlot
    /\ \E i \in 1..Len(before) : before[i].kind = "embed" /\ before[i].hl.on
    /\ \E i \in 1..Len(before) : before[i].kind = "text" /\ before[i].hl.on
    /\ ~HasHighlight(doc)

----------------------------------------------------------------------------
Shown == anchor.tooltipEl /\ overlays = 1

(* C13: in every state at most one tooltip node made for the anchor is in  *)
(* the body, whatever hover, scroll and detach events came before, and a   *)
(* hover-enter on an anchor whose tooltip is shown replaces the tooltip: a *)
(* single node is there afterwards.                                        *)
C13_AtMostOneOverlay ==
    /\ overlays \in {0, 1}
    /\ anchor.tooltipEl <=> overlays = 1
    /\ (lastOp = "mouseenter" /\ shownBefore) => overlays = 1

C13_Witness ==
    /\ lastOp = "mouseenter"
    /\ shownBefore
    /\ Shown

(* C14: after a hover-leave, after the detachment of the anchor and after  *)
(* the unmount of the editor component no tooltip node made for the anchor *)
(* is left in the body.                                                     *)
C14_RemovedOnEveryExit ==
    lastOp \in {"mouseleave", "detach", "unmount"} => overlays = 0

C19_HoverEventForEveryId ==
    (lastOp = "mouseenter" /\ anchor.highlightId # <<>>) => emitted = 1

\* the requested side is the top and the tooltip would start above the
\* top edge of the viewport
TopAbove(g) ==
    /\ g.placement \in {<<>>, <<"top">>}
    /\ getBoundingClientRect(getTooltipStyles(<<"top">>, g.rect),
                             g.width, g.height).top < 0

InsideViewport(rect, vw, vh) ==
    rect.left >= 0 /\ rect.top >= 0 /\ rect.right <= vw /\ rect.bottom <= vh

\* C16: when the requested top placement would put the tooltip above the
\* top edge of the viewport, the tooltip ends up on the bottom side or
\* clamped with its whole rectangle inside the viewport.
C16_TopOverflowHandled ==
    (lastOp = "showTooltip" /\ TopAbove(geometry)) =>
        \/ overlayBox.placement = <<"bottom">>
        \/ InsideViewport(overlayBox.rect, geometry.vw, geometry.vh)


\* the offset insertPlaceholder is to insert at
OffsetAskedFor ==
    IF inserted.index # Undefined THEN inserted.index
    ELSE IF inserted.from # NoSelection THEN inserted.from
    ELSE Len(before)

\* C17: insertPlaceholder puts the embed at the explicit offset, else at the
\* selection, else at the document length; the cursor is placed once the
\* embed is in the document and ends at that offset + 1.
C17_EmbedThenCursor ==
    lastOp = "insertPlaceholder" =>
        /\ inserted.at = OffsetAskedFor
        /\ Len(doc) = Len(before) + 1
        /\ doc[inserted.at + 1] =
               Embed(inserted.value.key, inserted.value.label)
        /\ inserted.placedIn = doc
        /\ selection = inserted.at + 1

\* C17, the offset alone: the embed is at the explicit offset, else at the
\* selection, else at the document length, and the rest of the document
\* keeps its order.
C17_OffsetChosen ==
    lastOp = "insertPlaceholder" =>
        /\ Len(doc) = Len(before) + 1
        /\ doc[OffsetAskedFor + 1].kind = "embed"
        /\ \A i \in 1..Len(before) :
               doc[IF i <= OffsetAskedFor THEN i ELSE i + 1] = before[i]


\* the editor as constructed: nothing was loaded into it
NothingLoaded == before = <<Char("\n")>> /\ calls = <<"applyHighlights">>

\* C18: applyHighlights on an editor into which nothing was loaded reports
\* an invalid state to its caller and leaves the document as it was.
C18_MisuseSignalled ==
    (lastOp = "applyHighlights" /\ NothingLoaded) =>
        thrown # <<>> /\ doc = before


\* the markup was turned into tokens and the tokens were loaded again
Reloaded ==
    calls = <<"semanticHtmlToPlaceholderTokens",
              "htmlWithPlaceholderTokensToHtml">>

Token(k) == <<"{", "{", k, "}", "}">>

\* k is written into an attribute and read back from a token as it is
PlainLexeme(k) == k \notin {SP, Q, GT, "&", "<", "}"}

KeylessTags(s) ==
    Cardinality({i \in 1..Len(s) :
                    StartsAt(s, KeylessTag, i) \/ StartsAt(s, LabelOnlyTag, i)})

SearchedText ==
    LET t == Project(getContents(doc), 0).plainText
    IN  IF CaseInsensitive(options) THEN toLowerCase(t) ELSE t
SearchedPhrase ==
    IF CaseInsensitive(options) THEN toLowerCase(searchText) ELSE searchText

Occurs ==
    \E i \in 1..Len(SearchedText) : StartsAt(SearchedText, SearchedPhrase, i)

BlankTexts == {<<>>, <<SP>>, <<SP, SP>>}

\* what applyHighlights leaves of the document for the one request
AppliedAlone(item) ==
    FormatAll(doc, SortByIndex(Locate(getContents(doc), <<item>>)))

\* C22: the empty phrase and a phrase that does not occur give no ranges,
\* and a request with an empty or blank text formats nothing.
C22_NothingToFind ==
    lastOp = "findTextRangesInDelta" =>
        /\ (searchText = <<>> => ranges = <<>>)
        /\ (~Occurs => ranges = <<>>)
        /\ \A b \in BlankTexts :
               AppliedAlone([PlainRequest EXCEPT !.text = b]) = doc

C22_Witness ==
    /\ lastOp = "findTextRangesInDelta"
    /\ searchText = <<>>
    /\ ranges = <<>>
    /\ \E i \in 1..Len(doc) : doc[i].ch = SP
    /\ AppliedAlone([PlainRequest EXCEPT !.text = <<"h">>]) # doc


\* a ql-highlight span opens at i
HighlightOpensAt(s, i) == s[i] = SPAN_OPEN /\ HasClass(s, i, "ql-highlight")

\* a ql-highlight span opens inside the body of another one
NestedHighlight(s) ==
    \E i \in 1..Len(s) :
        /\ HighlightOpensAt(s, i)
        /\ SpanClose(s, i) # 0
        /\ \E j \in (OpenTagEnd(s, i) + 1)..(SpanClose(s, i) - 1) :
               HighlightOpensAt(s, j)

\* no two requests of the list ask for the same text
DistinctTexts(items) ==
    \A m, n \in 1..Len(items) : items[m].text = items[n].text => m = n

\* C23: with the longer request substituted first, the shorter request
\* wraps nothing inside a span already made: serialize writes no highlight
\* span inside another.
C23_LongerFirstNoNesting ==
    (calls = <<"serialize">> /\ DistinctTexts(highlightText)) =>
        ~NestedHighlight(buf)


\* the span tags, opening and closing, in s
SpanTags(s) ==
    Cardinality({i \in 1..Len(s) : s[i] \in {SPAN_OPEN, SPAN_CLOSE}})

\* C24: every iteration of the loop of semanticHtmlToHighlightTokens has
\* fewer span tags after it than before it, or replaces nothing and is the
\* last one; so the loop ends after at most one iteration per pair of span
\* tags of the input and one more.
C24_LoopTerminates ==
    /\ [][lastOp = "do" =>
             \/ SpanTags(buf') < SpanTags(buf)
             \/ buf' = buf /\ lastOp' = "return"]_vars
    /\ [](Len(calls) <= SpanTags(src) \div 2 + 1)

C24_Witness ==
    /\ lastOp = "return"
    /\ Len(calls) = 3
    /\ SpanTags(src) >= 4
    /\ SpanTags(buf) = 0
    /\ prev = buf


\* the side asked for by data-tooltip-placement, "top" without it
Requested == IF geometry.placement = <<>> THEN <<"top">> ELSE geometry.placement

Across ==
    [side \in {"top", "bottom", "left", "right"} |->
        CASE side = "top" -> "bottom" [] side = "bottom" -> "top"
          [] side = "left" -> "right" [] OTHER -> "left"]

\* the rectangle of the tooltip on a side of the span
SideRect(side) ==
    getBoundingClientRect(getTooltipStyles(side, geometry.rect),
                          geometry.width, geometry.height)

\* that rectangle lies in the viewport inset by 4px
FitsOn(side) ==
    /\ SideRect(side).left >= 4
    /\ SideRect(side).top >= 4
    /\ SideRect(side).right <= geometry.vw - 4
    /\ SideRect(side).bottom <= geometry.vh - 4

Opposite == <<Across[Requested[1]]>>

\* C25: the requested side is kept when the tooltip fits there; else the
\* opposite side is used when it fits there; only when neither fits is the
\* tooltip clamped and its placement marker removed.  Unclamped, the marker
\* names the side used.
C25_PlacementOrder ==
    lastOp = "showTooltip" =>
        /\ FitsOn(Requested) =>
               overlayBox = [placement |-> Requested,
                             rect |-> SideRect(Requested)]
        /\ (~FitsOn(Requested) /\ FitsOn(Opposite)) =>
               overlayBox = [placement |-> Opposite,
                             rect |-> SideRect(Opposite)]
        /\ (~FitsOn(Requested) /\ ~FitsOn(Opposite)) =>
               /\ overlayBox.placement = <<>>
               /\ overlayBox.rect.left >= 4
               /\ overlayBox.rect.top >= 4
               /\ overlayBox.rect.width = geometry.width
               /\ overlayBox.rect.height = geometry.height

C25_Witness ==
    /\ lastOp = "showTooltip"
    /\ geometry.placement = <<"left">>
    /\ ~FitsOn(<<"left">>)
    /\ overlayBox.placement = <<"right">>
    /\ overlayBox.rect.left = geometry.rect.right + TOOLTIP_OFFSET

(* C26: deserialize applies the highlight strip to the markup first and    *)
(* the placeholder strip second: the text it returns is the placeholder    *)
(* strip of the highlight strip of its argument, with &nbsp; normalised.   *)
C26_HighlightStripFirst ==
    ( /\ calls # <<>>
      /\ calls[Len(calls)] = "deserialize"
      /\ blots = DEFAULT_EDITOR_BLOTS )
        => buf = ReplaceLiteral(
                     semanticHtmlToPlaceholderTokens(
                         semanticHtmlToHighlightTokens(prev)),
                     <<NBSP>>, <<SP>>, 1)

TextAt(d, text, index) ==
    /\ index + Len(text) <= Len(d)
    /\ \A k \in 1..Len(text) : d[index + k].ch = text[k]

(* C28: the stored request list changes only in setHighlightText and in an *)
(* applyHighlights that stores a non-empty list with the highlight blot    *)
(* enabled; removeAllHighlights, loadHtml, appendHtml, refreshContent and  *)
(* every other applyHighlights leave it as it was.  So after a loadHtml,   *)
(* also one that follows removeAllHighlights, every occurrence of a stored *)
(* phrase in the loaded text is highlighted.                                *)
C28_StoredListFrame ==
    /\ [][highlightText' # highlightText =>
            \/ lastOp' = "setHighlightText"
            \/ /\ lastOp' = "applyHighlights"
               /\ blots.enableHighlightBlot
               /\ highlightText' # <<>>]_vars
    /\ []((lastOp = "loadHtml" /\ blots.enableHighlightBlot) =>
            \A n \in 1..Len(highlightText) :
                \A index \in 0..Len(doc) :
                    ( /\ ~IsBlank(highlightText[n].text)
                      /\ TextAt(doc, highlightText[n].text, index) )
                        => \A k \in 1..Len(highlightText[n].text) :
                               doc[index + k].hl.on)

C28_Witness ==
    /\ calls = <<"applyHighlights", "removeAllHighlights", "loadHtml">>
    /\ ~HasHighlight(before)
    /\ blots.enableHighlightBlot
    /\ Len(highlightText) = 1
    /\ highlightText[1].text = <<"A", SP, "B">>
    /\ TextAt(doc, <<"A", SP, "B">>, 0)
    /\ \A k \in 1..3 : doc[k].hl.hoverTextTooltip = <<"T">>

\* the ranges of the last applyHighlights in the order of its requests
Requested29 == Locate(getContents(before), highlightText)

\* the ranges among rs that hold the unit at offset i - 1
Covering(rs, i) ==
    {k \in 1..Len(rs) : rs[k].index < i /\ i <= rs[k].index + rs[k].length}

(* C29: applyHighlights(R) changes the highlight attribute only of units    *)
(* inside a range located for a request of R.  There the attribute is the  *)
(* value of a request of R whose range holds the unit, and where all such   *)
(* ranges start at the same offset it is the value of the last of them in  *)
(* R.  Every other unit, with the highlight an earlier call gave it, is     *)
(* what it was; a call that locates no range changes no unit.              *)
C29_OnlyLocatedRanges ==
    Applied =>
        IF located = <<>> THEN doc = before
        ELSE \A i \in 1..Len(doc) :
            LET cov == Covering(Requested29, i)
            IN  IF cov = {} THEN doc[i] = before[i]
                ELSE /\ \E k \in cov :
                          formats(doc[i].hl)
                              = formats(create(Requested29[k].value))
                     /\ (\A k, l \in cov :
                             Requested29[k].index = Requested29[l].index)
                          => formats(doc[i].hl)
                               = formats(create(Requested29[Last(cov)].value))

C29_Witness ==
    /\ Applied
    /\ located # <<>>
    /\ calls = <<"applyHighlights", "applyHighlights">>
    /\ \E i \in 1..Len(doc) :
          /\ Covering(Requested29, i) = {}
          /\ before[i].hl.on
          /\ doc[i] = before[i]
    /\ \E i \in 1..Len(doc) :
          \E k, l \in Covering(Requested29, i) :
              /\ k < l
              /\ Requested29[k].index = Requested29[l].index
              /\ formats(create(Requested29[k].value))
                     # formats(create(Requested29[l].value))
              /\ formats(doc[i].hl) = formats(create(Requested29[l].value))

\* the opening tags of the spans of s, each from "<span" to its ">"
OpeningTags(s) ==
    {SubSeq(s, i, OpenTagEnd(s, i)) :
        i \in {k \in 1..Len(s) : s[k] = SPAN_OPEN /\ OpenTagEnd(s, k) # 0}}

\* the markup serialize hands to htmlWithHighlightText
BeforeWrapping ==
    htmlWithHighlightTokensToHtml(htmlWithPlaceholderTokensToHtml(src))

(* C30: the wrapping of phrases in serialize touches text content only:    *)
(* every opening tag of the markup before the wrapping, with its attribute *)
(* names and values (the data-key and data-label of the spans written for  *)
(* {{KEY}} among them), stands unchanged in the markup serialize returns.  *)
C30_TagsUntouched ==
    (calls = <<"serialize">> /\ blots = DEFAULT_EDITOR_BLOTS /\ src # <<>>)
        => \A tag \in OpeningTags(BeforeWrapping) :
               \E j \in 1..Len(buf) : StartsAt(buf, tag, j)

====
